---- MODULE Spec2Model ----
(***************************************************************************)
(* The interview front end as a state machine.                             *)
(*                                                                         *)
(* Three interview windows exist in the repository:                        *)
(*   - the hook-based InterviewWindow (function component) composed with   *)
(*     useInterviewState, useQuestionTimer/useTimer and useInterviewApi,   *)
(*     mounted by App;                                                     *)
(*   - the class-based InterviewWindow (components/InterviewWindow.jsx);   *)
(*   - ConversationInterviewWindow (apps/api/README.md).                   *)
(* Each run of the model mounts one of them at a time.                     *)
(*                                                                         *)
(* React is modelled at the granularity of commits.  The variables hold    *)
(* the state of the last commit.  An event handler (a click, an interval   *)
(* callback, the continuation of an awaited API call) applies its batched  *)
(* state updates and commits.  The passive effects of a commit run in the  *)
(* step Flush: they read the values of that commit (their closure) and     *)
(* their own batched updates make the next commit.  The effect that saves  *)
(* the interview state to sessionStorage depends on nothing else and is    *)
(* the trailing save of every step that changes that state, so it is part  *)
(* of those steps.                                                         *)
(*                                                                         *)
(* When an interval callback, a timeout or the effects of a commit run is  *)
(* the scheduler's choice: every order of the enabled steps is a behaviour. *)
(*                                                                         *)
(* Countdowns are counted in ticks of the interval, on a reduced scale.    *)
(* null is "null" for strings, -1 for a time and <<>> for an absent        *)
(* sessionStorage item.                                                    *)
(***************************************************************************)
EXTENDS Integers, Sequences, FiniteSets, TLC

VARIABLES
    page,             \* what is mounted: "none" | "hook" (App with the hook-based
                      \* InterviewWindow) | "completion" (App with Completion) |
                      \* "class" (the class-based InterviewWindow) |
                      \* "conversation" (ConversationInterviewWindow) |
                      \* "navigated" (the browser went to /completion) |
                      \* "left" (ConversationInterviewWindow was unmounted, the
                      \* page is still loaded)
    now,              \* the clock (new Date()), in seconds
    uuids,            \* how many uuidv4() values were drawn
    storage,          \* sessionStorage['interview_session']: <<>> or <<record>>
    state,            \* useInterviewState: state
    timer,            \* useTimer: time, isRunning, isComplete
    timerRef,         \* useTimer: an interval set by the timer effect is active
    activeQuestionId, \* useQuestionTimer
    timers,           \* useQuestionTimer: saved remaining time per question id
    win,              \* InterviewWindow: isSubmitting, sessionId
    sub,              \* InterviewWindow: the handleSubmit call awaiting the API
    initPending,      \* InterviewWindow: createSession.execute is pending
    lastIsTimeUp,     \* the isTimeUp the time-up effect last ran with
    app,              \* App: interviewComplete, results
    completeCalls,    \* how many times the mounted window called onComplete
    finished,         \* the sessionId (useInterviewState) of the interview whose
                      \* results App received last since the page was loaded, 0
                      \* if there is none
    shownAt,          \* the moment (now) at which the current question of the
                      \* mounted useInterviewState became the current one, -1
                      \* when no window is mounted
    cls,              \* class-based InterviewWindow: this.state
    timerInterval,    \* class-based InterviewWindow: this.timerInterval is active
    conv,             \* ConversationInterviewWindow: this.state
    convInterval,     \* ConversationInterviewWindow: this.timerInterval is active
    convTimeouts,     \* ConversationInterviewWindow: pending setTimeout callbacks
    selected,         \* ConversationInterviewWindow: the files of its file input
    server,           \* the API server: whether an LLM API key is configured,
                      \* the stored response and evaluation per question, and of the last
                      \* evaluate call what the LLM API did and what was
                      \* returned
    api               \* one useApi hook: data, error, loading, and about its
                      \* execute calls: how many are pending, whether the
                      \* pending one has been the only one since it began,
                      \* and, of the call settled last, what apiFunction
                      \* settled with and what execute returned or threw

hookVars == <<uuids, storage, state, timer, timerRef, activeQuestionId,
              timers, win, sub, initPending, lastIsTimeUp, app, completeCalls,
              finished, shownAt>>

classVars == <<cls, timerInterval>>

convVars == <<conv, convInterval, convTimeouts, selected>>

apiVars == <<api>>

serverVars == <<server>>

vars == <<page, now, hookVars, classVars, convVars, apiVars, serverVars>>

----------------------------------------------------------------------------
(* Bounds of the model *)

\* How many of App's MOCK_QUESTIONS the interview is run with.
NumQuestions == 2

\* QUESTION_TIME_LIMIT is 300 in the source; the model scales it (and every
\* timeLimit with it) so that a countdown can be followed to its end.
QUESTION_TIME_LIMIT == 2

\* The clock stops advancing at MaxClock.
MaxClock == 1

\* How many session ids (uuidv4) are drawn: mounts and resets together.
MaxSessions == 2

\* How many timeouts of one kind ConversationInterviewWindow has pending.
MaxPending == 1

\* How far a section's count of responses is followed.
MaxProgress == 3

\* Seconds of the source per tick of ConversationInterviewWindow's countdown.
TickSeconds == 100

\* Questions of the source per question of a section of the model.
SectionDivisor == 5

\* How many questions of each of QUESTION_POOLS are drawn from.
PoolSize == 2

\* How many files the candidate selects at once.
MaxSelected == 2
MaxApiCalls == 2

----------------------------------------------------------------------------
(* Data *)

\* The source's seconds on the model's scale.
ScaledTime(seconds) == (seconds * QUESTION_TIME_LIMIT) \div 300

MOCK_QUESTIONS ==
    << [id |-> "q1", timeLimit |-> ScaledTime(180)],
       [id |-> "q2", timeLimit |-> ScaledTime(240)],
       [id |-> "q3", timeLimit |-> ScaledTime(300)],
       [id |-> "q4", timeLimit |-> ScaledTime(180)],
       [id |-> "q5", timeLimit |-> ScaledTime(120)] >>

\* App: setQuestions(MOCK_QUESTIONS), cut to the model's bound.
Questions == SubSeq(MOCK_QUESTIONS, 1, NumQuestions)

QuestionIds == {Questions[i].id : i \in 1..Len(Questions)}

\* What the candidate can have in the answer field: nothing, white space
\* only, or a text.
AnswerTexts == {"", " ", "a"}

\* String.prototype.trim
trim(s) == IF s = " " THEN "" ELSE s

\* f with key k set to v (an object spread with a computed key).
Put(f, k, v) == [x \in DOMAIN f \cup {k} |-> IF x = k THEN v ELSE f[x]]

EmptyObject == [x \in {} |-> 0]

----------------------------------------------------------------------------
(* useInterviewState *)

\* A persist effect that leaves the time per question out.
PersistedWithoutTimes(st) ==
    [sessionId |-> st.sessionId,
     currentQuestionIndex |-> st.currentQuestionIndex,
     questions |-> st.questions,
     answers |-> st.answers,
     isComplete |-> st.isComplete,
     startTime |-> st.startTime]

\* The object the persist effect writes: JSON.stringify keeps these seven
\* fields (all of them strings, numbers, booleans, arrays and plain objects,
\* which JSON.parse gives back unchanged) and no other.
Persisted(st) ==
    [sessionId |-> st.sessionId,
     currentQuestionIndex |-> st.currentQuestionIndex,
     questions |-> st.questions,
     answers |-> st.answers,
     isComplete |-> st.isComplete,
     startTime |-> st.startTime,
     timePerQuestion |-> st.timePerQuestion]

\* useState(() => ({ ...defaults, ...loadState() }))
InitialState(uuid, clock, saved) ==
    LET defaults == [sessionId |-> uuid,
                     currentQuestionIndex |-> 0,
                     questions |-> Questions,
                     answers |-> <<>>,
                     currentAnswer |-> "",
                     isComplete |-> FALSE,
                     startTime |-> clock,
                     endTime |-> -1,
                     timePerQuestion |-> EmptyObject]
    IN  IF saved = <<>> THEN defaults
        ELSE [f \in DOMAIN defaults |->
                 IF f \in DOMAIN saved[1] THEN saved[1][f] ELSE defaults[f]]

\* currentQuestion()
currentQuestion(st) == st.questions[st.currentQuestionIndex + 1]

\* findIndex(a => a.questionId === questionId), 1-based, 0 when absent
findIndex(answers, questionId) ==
    IF \E i \in 1..Len(answers) : answers[i].questionId = questionId
    THEN CHOOSE i \in 1..Len(answers) :
            /\ answers[i].questionId = questionId
            /\ \A j \in 1..(i - 1) : answers[j].questionId # questionId
    ELSE 0

\* submitAnswer: the state update, questionId and clock taken by the caller
submitAnswer(prev, questionId, clock) ==
    LET answerIndex == findIndex(prev.answers, questionId)
        since == IF answerIndex > 0 THEN prev.answers[answerIndex].timestamp
                 ELSE prev.startTime
        answerData == [questionId |-> questionId,
                       answer |-> prev.currentAnswer,
                       timestamp |-> clock,
                       timeSpent |-> clock - since]
        updatedAnswers == IF answerIndex > 0
                          THEN [prev.answers EXCEPT ![answerIndex] = answerData]
                          ELSE Append(prev.answers, answerData)
        isLastQuestion == prev.currentQuestionIndex >= Len(prev.questions) - 1
    IN  [prev EXCEPT
            !.answers = updatedAnswers,
            !.currentAnswer = "",
            !.currentQuestionIndex = IF isLastQuestion THEN @ ELSE @ + 1,
            !.isComplete = isLastQuestion,
            !.endTime = IF isLastQuestion THEN clock ELSE @,
            !.timePerQuestion = Put(@, questionId, answerData.timeSpent)]

\* updateAnswer
updateAnswer(prev, answer) == [prev EXCEPT !.currentAnswer = answer]

\* goToQuestion
goToQuestion(prev, index) ==
    IF index >= 0 /\ index < Len(prev.questions)
    THEN [prev EXCEPT !.currentQuestionIndex = index]
    ELSE prev

----------------------------------------------------------------------------
(* useTimer and useQuestionTimer.  c is the timer of the commit the caller *)
(* closed over, t the timer with the updates queued so far.                *)

pause(t) == [t EXCEPT !.isRunning = FALSE]

reset(t, newTime) == [time |-> newTime, isRunning |-> FALSE, isComplete |-> FALSE]

start(c, t) ==
    IF ~c.isRunning /\ ~c.isComplete THEN [t EXCEPT !.isRunning = TRUE] ELSE t

\* The timer effect's updates.  Its dependency onComplete is a new function
\* in every render, so the effect runs after every commit.
timerEffect(c, t) ==
    IF c.isRunning /\ c.time > 0 THEN t
    ELSE IF c.time = 0 THEN [t EXCEPT !.isRunning = FALSE, !.isComplete = TRUE]
    ELSE t

\* The timer effect's interval: the cleanup of the previous run clears the
\* old one, this run sets a new one or none.
timerEffectInterval(c) == c.isRunning /\ c.time > 0

\* The interval callback: setTime(prevTime => ...)
tick(t) ==
    IF t.time <= 1 THEN [time |-> 0, isRunning |-> FALSE, isComplete |-> TRUE]
    ELSE [t EXCEPT !.time = @ - 1]

\* A restart that forgets the saved time.
remainingTimeForgotten(savedTimers, questionId) == QUESTION_TIME_LIMIT

\* The time a question's countdown is (re)started from.
remainingTime(savedTimers, questionId) ==
    IF questionId \in DOMAIN savedTimers THEN savedTimers[questionId]
    ELSE QUESTION_TIME_LIMIT

\* startQuestionTimer(questionId), closed over the commit
\* [timer |-> c, activeQuestionId |-> active, timers |-> savedTimers];
\* t and ts are the timer and timers with the updates queued so far.
startQuestionTimer(c, active, savedTimers, t, ts, questionId) ==
    LET switching == active # "null" /\ active # questionId
        t1 == IF switching THEN pause(t) ELSE t
        ts1 == IF switching THEN Put(ts, active, c.time) ELSE ts
        t2 == reset(t1, remainingTime(savedTimers, questionId))
    IN  [timer |-> start(c, t2), timers |-> ts1, activeQuestionId |-> questionId]

----------------------------------------------------------------------------
(* The class-based InterviewWindow.  this.state changes only when React     *)
(* processes the queued updates, after the code that called setState has    *)
(* returned: a method reads the committed state (committed) and queues its  *)
(* updates onto pending.                                                    *)

totalQuestions == 40

mockQuestions ==
    << [id |-> "excel", timeLimit |-> ScaledTime(180), requiresFile |-> FALSE],
       [id |-> "behavioral", timeLimit |-> ScaledTime(240), requiresFile |-> FALSE],
       [id |-> "assignment", timeLimit |-> ScaledTime(600), requiresFile |-> TRUE] >>

\* The constructor's this.state (totalQuestions is never set again).
Constructed ==
    [sessionId |-> "null",
     currentQuestion |-> "null",
     questionNumber |-> 0,
     timeRemaining |-> 0,
     answer |-> "",
     uploadedFiles |-> <<>>,
     isLoading |-> TRUE,
     error |-> "null",
     isSubmitting |-> FALSE,
     isCompleted |-> FALSE]

\* fetchNextQuestion: the state after its updates, and whether it reached
\* startTimer
fetchNextQuestion(committed, pending) ==
    IF committed.sessionId = "null"
    THEN [state |-> pending, timerStarted |-> FALSE]
    ELSE LET currentQ == mockQuestions[(committed.questionNumber % 3) + 1]
         IN  [state |-> [pending EXCEPT
                            !.currentQuestion = currentQ.id,
                            !.questionNumber = committed.questionNumber + 1,
                            !.timeRemaining = currentQ.timeLimit,
                            !.answer = "",
                            !.uploadedFiles = <<>>,
                            !.isLoading = FALSE],
              timerStarted |-> TRUE]

\* initializeSession: setState({ sessionId, isLoading: false }) and then
\* fetchNextQuestion(), which reads this.state before that update is applied
initializeSession(committed) ==
    fetchNextQuestion(committed,
                      [committed EXCEPT !.sessionId = "session", !.isLoading = FALSE])

----------------------------------------------------------------------------
(* ConversationInterviewWindow (apps/api/README.md).  As for the other      *)
(* class component, c is the committed this.state a method reads and p the  *)
(* state with the updates queued so far.  The conversation, the transcript  *)
(* and totalTimeElapsed are only appended to or counted up and are left out.*)

\* The source's seconds and question counts on the model's scale.
ConvTime(seconds) == (seconds + TickSeconds - 1) \div TickSeconds

ConvCount(questions) == (questions + SectionDivisor - 1) \div SectionDivisor

SECTIONS ==
    [APTITUDE |-> [questions |-> ConvCount(10), timePerQuestion |-> ConvTime(90)],
     EXCEL |-> [questions |-> ConvCount(10), timePerQuestion |-> ConvTime(120)],
     SITUATIONAL |-> [questions |-> ConvCount(5), timePerQuestion |-> ConvTime(300)]]

ALL_QUESTION_POOLS ==
    [APTITUDE |-> << [id |-> "apt_1", requiresFile |-> FALSE, isFollowUp |-> FALSE],
                     [id |-> "apt_2", requiresFile |-> FALSE, isFollowUp |-> FALSE],
                     [id |-> "apt_3", requiresFile |-> FALSE, isFollowUp |-> FALSE] >>,
     EXCEL |-> << [id |-> "excel_1", requiresFile |-> FALSE, isFollowUp |-> FALSE],
                  [id |-> "excel_2", requiresFile |-> FALSE, isFollowUp |-> FALSE],
                  [id |-> "excel_3", requiresFile |-> FALSE, isFollowUp |-> FALSE] >>,
     SITUATIONAL |-> << [id |-> "sit_1", requiresFile |-> FALSE, isFollowUp |-> FALSE],
                        [id |-> "sit_2", requiresFile |-> TRUE, isFollowUp |-> FALSE] >>]

\* The pools the questions are drawn from, cut to the model's bound.
QUESTION_POOLS ==
    [s \in DOMAIN ALL_QUESTION_POOLS |->
        SubSeq(ALL_QUESTION_POOLS[s], 1,
               IF PoolSize < Len(ALL_QUESTION_POOLS[s]) THEN PoolSize
               ELSE Len(ALL_QUESTION_POOLS[s]))]

\* currentQuestion: null
NoQuestion == [id |-> "null", requiresFile |-> FALSE, isFollowUp |-> FALSE]

\* The constructor's this.state
ConvConstructed ==
    [sessionId |-> "null",
     currentSection |-> "APTITUDE",
     sectionProgress |-> [APTITUDE |-> 0, EXCEL |-> 0, SITUATIONAL |-> 0],
     currentQuestion |-> NoQuestion,
     awaitingResponse |-> FALSE,
     timeRemaining |-> 0,
     currentAnswer |-> "",
     uploadedFiles |-> <<>>,
     isLoading |-> TRUE,
     error |-> "null",
     isSubmitting |-> FALSE,
     isCompleted |-> FALSE]

NoTimeouts == [fetch |-> 0, followUp |-> 0]

\* What a method leaves behind: the state with its updates, whether
\* this.timerInterval is active, the pending timeouts, and whether it sent
\* the browser to /completion.
Outcome(st, interval, timeouts, navigated) ==
    [state |-> st, interval |-> interval, timeouts |-> timeouts,
     navigated |-> navigated]

\* Files a candidate can select: a name (its characters) and a MIME type.
Files ==
    { [name |-> <<"a", ".", "C", "S", "V">>, type |-> ""],
      [name |-> <<"b", ".", "x", "l", "s", "x">>,
       type |-> "application/vnd.openxmlformats-officedocument.spreadsheetml.sheet"],
      [name |-> <<"d", ".", "X", "l", "s">>, type |-> ""],
      [name |-> <<"e", ".", "t", "x", "t">>, type |-> "text/csv"],
      [name |-> <<"g", ".", "c", "s", "v", ".", "t", "x", "t">>,
       type |-> "application/pdf"] }

\* String.prototype.toLowerCase, on the characters in use
toLowerCase(name) ==
    [i \in 1..Len(name) |->
        CASE name[i] = "C" -> "c"
          [] name[i] = "S" -> "s"
          [] name[i] = "V" -> "v"
          [] name[i] = "X" -> "x"
          [] name[i] = "L" -> "l"
          [] OTHER -> name[i]]

\* String.prototype.endsWith
endsWith(name, ext) ==
    /\ Len(name) >= Len(ext)
    /\ SubSeq(name, Len(name) - Len(ext) + 1, Len(name)) = ext

validTypes ==
    {"application/vnd.ms-excel",
     "application/vnd.openxmlformats-officedocument.spreadsheetml.sheet",
     "text/csv"}

validExtensions ==
    { <<".", "c", "s", "v">>, <<".", "x", "l", "s", "x">>, <<".", "x", "l", "s">> }

\* A filter that looks at the MIME type only.
isValidFileByType(file) == file.type \in validTypes

\* The filter of handleFileUpload
isValidFile(file) ==
    \/ file.type \in validTypes
    \/ \E ext \in validExtensions : endsWith(toLowerCase(file.name), ext)

\* files.filter(file => ...) of handleFileUpload
RECURSIVE validFiles(_)
validFiles(files) ==
    IF files = <<>> THEN <<>>
    ELSE IF isValidFile(Head(files))
         THEN <<Head(files)>> \o validFiles(Tail(files))
         ELSE validFiles(Tail(files))

\* handleFileUpload.  Its two setState calls are merged into one update:
\* the later error: null wins.
handleFileUpload(p, files) ==
    LET p1 == IF Len(validFiles(files)) # Len(files)
              THEN [p EXCEPT !.error = "Some files were not uploaded. Please use only CSV or Excel files."]
              ELSE p
    IN  [p1 EXCEPT !.uploadedFiles = validFiles(files), !.error = "null"]

\* removeFile: uploadedFiles.filter((_, i) => i !== index), index 0-based
removeFile(p, index) ==
    [p EXCEPT !.uploadedFiles =
        SubSeq(@, 1, index) \o SubSeq(@, index + 2, Len(@))]

\* The response area (answer field, Send Response) is rendered.
ResponseArea(c) == c.awaitingResponse /\ c.currentQuestion # NoQuestion

\* The file input is rendered.
FileInput(c) == ResponseArea(c) /\ c.currentQuestion.requiresFile

\* The disabled attribute of the Send Response button
SubmitDisabled(c) ==
    \/ c.isSubmitting
    \/ /\ trim(c.currentAnswer) = ""
       /\ (~c.currentQuestion.requiresFile \/ Len(c.uploadedFiles) = 0)

\* submitResponse(isAutoSubmit); followUp is the draw
\* Math.random() < currentQuestion.followUpProbability
submitResponse(c, o, followUp) ==
    IF c.sessionId = "null" \/ c.currentQuestion = NoQuestion THEN o
    ELSE [o EXCEPT
            !.state = [@ EXCEPT
                          !.sectionProgress[c.currentSection] = @ + 1,
                          !.currentAnswer = "",
                          !.uploadedFiles = <<>>,
                          !.awaitingResponse = FALSE,
                          !.isSubmitting = FALSE],
            !.timeouts.followUp = IF followUp THEN @ + 1 ELSE @,
            !.timeouts.fetch = IF followUp THEN @ ELSE @ + 1]

\* handleAutoSubmit
convHandleAutoSubmit(c, o, followUp) ==
    submitResponse(c, [o EXCEPT !.interval = FALSE], followUp)

\* The interval callback of startTimer.  The updates handleAutoSubmit queues
\* from inside the updater are applied after the updater's own result.
convTick(c, o, followUp) ==
    IF c.timeRemaining - 1 <= 0
    THEN convHandleAutoSubmit(c, [o EXCEPT !.state.timeRemaining = 0], followUp)
    ELSE [o EXCEPT !.state.timeRemaining = c.timeRemaining - 1]

\* startSection
startSection(o, sectionKey) ==
    [o EXCEPT !.state.currentSection = sectionKey, !.timeouts.fetch = @ + 1]

\* completeInterview
completeInterview(o) ==
    [o EXCEPT !.state.isCompleted = TRUE, !.navigated = TRUE]

\* A window that goes from the first section straight to the last.
proceedToNextSectionSkipping(c, o) ==
    IF c.currentSection = "APTITUDE" THEN startSection(o, "SITUATIONAL")
    ELSE IF c.currentSection = "EXCEL" THEN startSection(o, "SITUATIONAL")
    ELSE completeInterview(o)

\* proceedToNextSection
proceedToNextSection(c, o) ==
    IF c.currentSection = "APTITUDE" THEN startSection(o, "EXCEL")
    ELSE IF c.currentSection = "EXCEL" THEN startSection(o, "SITUATIONAL")
    ELSE completeInterview(o)

\* fetchNextQuestion of ConversationInterviewWindow; randomQuestion is the
\* draw from the section's pool
convFetchNextQuestion(c, o, randomQuestion) ==
    IF c.sessionId = "null" THEN o
    ELSE LET o1 == [o EXCEPT !.state.isLoading = TRUE]
         IN  IF c.sectionProgress[c.currentSection] >= SECTIONS[c.currentSection].questions
             THEN proceedToNextSection(c, o1)
             ELSE [o1 EXCEPT
                     !.state.currentQuestion = randomQuestion,
                     !.state.awaitingResponse = TRUE,
                     !.state.timeRemaining = SECTIONS[c.currentSection].timePerQuestion,
                     !.state.isLoading = FALSE,
                     !.interval = TRUE]

\* generateFollowUp
generateFollowUp(c, o) ==
    [o EXCEPT
        !.state.currentQuestion = [@ EXCEPT !.isFollowUp = TRUE],
        !.state.awaitingResponse = TRUE,
        !.state.timeRemaining = ConvTime(60),
        !.interval = TRUE]

\* initializeSession of ConversationInterviewWindow
convInitializeSession(o) ==
    startSection([o EXCEPT !.state.sessionId = "session", !.state.isLoading = FALSE],
                 "APTITUDE")

----------------------------------------------------------------------------
(* interviewStorage (lib/storage.js); store is the sessionStorage item
   'interview_session', the key useInterviewState writes to *)

\* Math.abs
Abs(x) == IF x < 0 THEN 0 - x ELSE x

\* hasActiveSession at time clock (seconds).  A stored object without
\* _lastUpdated gives new Date(undefined), an invalid date; the difference
\* and hoursDiff are then NaN, and NaN < 24 is false.
hasActiveSession(store, clock) ==
    IF store = <<>> THEN FALSE
    ELSE IF "_lastUpdated" \notin DOMAIN store[1] THEN FALSE
    ELSE Abs(clock - store[1]["_lastUpdated"]) < 24 * 3600

----------------------------------------------------------------------------
(* The server's evaluation of an answer, after the AI Evaluation Pipeline of
   docs/ARCHITECTURE.md: the LLM API call and, on its failure or without an
   API key, the mock evaluation.  The server's code is not part of the
   sources at hand. *)

\* What an evaluation holds when the LLM gave it
LlmEvaluations ==
    {[score |-> sc, feedback |-> "llm", failed |-> FALSE] : sc \in {"low", "medium", "high"}}

\* The mock evaluation with the default scores
MockEvaluation == [score |-> "default", feedback |-> "mock", failed |-> FALSE]

\* No evaluation
NoEvaluation == [score |-> "null", feedback |-> "null", failed |-> FALSE]

\* An evaluate call that fails
EvaluationFailed == [score |-> "null", feedback |-> "null", failed |-> TRUE]

\* What the LLM API call can do: answer with an evaluation, or fail
LlmOutcomes ==
    {[ok |-> TRUE, result |-> e] : e \in LlmEvaluations}
        \cup {[ok |-> FALSE, result |-> NoEvaluation]}

\* The LLM API was not called.
NotCalled == [ok |-> FALSE, result |-> NoEvaluation]

\* An evaluation without the fallback path
evaluateWithoutFallback(keyConfigured, llm) ==
    IF keyConfigured /\ llm.ok THEN llm.result ELSE EvaluationFailed

\* evaluate(question, answer): llm is what the LLM API call does if made
evaluate(keyConfigured, llm) ==
    IF keyConfigured /\ llm.ok THEN llm.result ELSE MockEvaluation

\* The server after its start
ServerStarted ==
    [keyConfigured |-> FALSE,
     responses |-> [q \in QuestionIds |-> "null"],
     evaluations |-> [q \in QuestionIds |-> NoEvaluation],
     called |-> FALSE,
     llm |-> NotCalled,
     returned |-> NoEvaluation]

----------------------------------------------------------------------------
(* useApi *)

\* What apiFunction can resolve with: response.data
ResponseData == {"null", "session", "question", "evaluation"}

\* What apiFunction can reject with: an error without a response (the
\* network failed), with a response that carries no message, an empty one,
\* or a message
ApiErrors ==
    {[hasResponse |-> FALSE, message |-> "null"],
     [hasResponse |-> TRUE, message |-> "null"],
     [hasResponse |-> TRUE, message |-> ""],
     [hasResponse |-> TRUE, message |-> "Session not found"],
     [hasResponse |-> TRUE, message |-> "Invalid answer"]}

\* No error: the err of a call that did not reject
NoError == [hasResponse |-> FALSE, message |-> "null"]

\* The hook's first render; no execute call was made.
useApiMounted ==
    [data |-> "null", error |-> "null", loading |-> FALSE,
     pending |-> 0, alone |-> TRUE,
     outcome |-> [kind |-> "none", value |-> "null",
                  responseData |-> "null", err |-> NoError]]

\* A hook that reports every failure with the same words.
errorMessageFixed(err) == "An unexpected error occurred"

\* err.response?.data?.message || 'An unexpected error occurred'
errorMessage(err) ==
    IF err.hasResponse /\ err.message \notin {"null", ""}
    THEN err.message
    ELSE "An unexpected error occurred"

\* execute, up to its await
execute(a) ==
    [a EXCEPT !.loading = TRUE, !.error = "null",
              !.pending = @ + 1, !.alone = (a.pending = 0)]

\* execute from the await on, apiFunction having resolved with a response
\* whose data is responseData
executeResolved(a, responseData) ==
    [a EXCEPT !.data = responseData,
              !.loading = FALSE,
              !.pending = @ - 1,
              !.outcome = [kind |-> "returned", value |-> responseData,
                           responseData |-> responseData, err |-> NoError]]

\* execute from the await on, apiFunction having rejected with err
executeRejected(a, err) ==
    [a EXCEPT !.error = errorMessage(err),
              !.loading = FALSE,
              !.pending = @ - 1,
              !.outcome = [kind |-> "thrown", value |-> errorMessage(err),
                           responseData |-> "null", err |-> err]]

----------------------------------------------------------------------------
(* The hook-based InterviewWindow *)

\* No handleSubmit call is awaiting the API.
Idle == [pc |-> "idle", questionId |-> "null", isLast |-> FALSE,
         answers |-> <<>>, sessionId |-> "null"]

\* What a handleSubmit call closed over in the commit (st, w), waiting at pc.
Awaiting(pc, st, w) ==
    [pc |-> pc,
     questionId |-> currentQuestion(st).id,
     isLast |-> st.currentQuestionIndex = Len(Questions) - 1,
     answers |-> st.answers,
     sessionId |-> w.sessionId]

\* answers.reduce((acc, ans) => ({...acc, [ans.questionId]: ans.timeSpent}), {})
timePerQuestionOf(answers) ==
    [q \in {answers[i].questionId : i \in 1..Len(answers)} |->
        answers[CHOOSE i \in 1..Len(answers) :
                    /\ answers[i].questionId = q
                    /\ \A j \in (i + 1)..Len(answers) : answers[j].questionId # q
               ].timeSpent]

\* The results handleSubmit passes to onComplete (the evaluation is the
\* server's and is left out).
resultsOf(cl) ==
    [sessionId |-> cl.sessionId,
     answers |-> cl.answers,
     timePerQuestion |-> timePerQuestionOf(cl.answers)]

\* handleSubmit from "Update local state" on, cl being what the call closed
\* over; p holds the state, win, timer and sub with the updates queued so far.
afterSubmitApi(cl, p, clock) ==
    LET p1 == [p EXCEPT !.state = submitAnswer(@, cl.questionId, clock)]
    IN  IF cl.isLast
        THEN [p1 EXCEPT !.sub = [cl EXCEPT !.pc = "evalApi"]]
        ELSE [p1 EXCEPT !.win.isSubmitting = FALSE, !.sub = Idle]

\* handleSubmit, called in the commit (st, w), up to its first pending await
handleSubmit(st, w, p, clock) ==
    IF trim(st.currentAnswer) = "" \/ w.isSubmitting THEN p
    ELSE LET p1 == [p EXCEPT !.win.isSubmitting = TRUE, !.timer = pause(@)]
         IN  IF w.sessionId # "null"
             THEN [p1 EXCEPT !.sub = Awaiting("submitApi", st, w)]
             ELSE afterSubmitApi(Awaiting("idle", st, w), p1, clock)

\* handleSubmit's catch and finally (the error message is not modelled)
submitFailed(p) == [p EXCEPT !.win.isSubmitting = FALSE, !.sub = Idle]

\* The time-up effect: it runs when isTimeUp differs from its last run.
timeUpEffect(st, w, c, last, p, clock) ==
    IF c.isComplete # last /\ c.isComplete THEN handleSubmit(st, w, p, clock) ELSE p

Pending == [state |-> state, win |-> win, timer |-> timer, sub |-> sub]

\* The values of an unmounted InterviewWindow.
NoState == InitialState(0, 0, <<>>)
NoTimer == [time |-> QUESTION_TIME_LIMIT, isRunning |-> FALSE, isComplete |-> FALSE]
NoWin == [isSubmitting |-> FALSE, sessionId |-> "null"]
NoApp == [interviewComplete |-> FALSE, results |-> <<>>]

Unmounted ==
    /\ state' = NoState
    /\ timer' = NoTimer
    /\ timerRef' = FALSE
    /\ activeQuestionId' = "null"
    /\ timers' = EmptyObject
    /\ win' = NoWin
    /\ sub' = Idle
    /\ initPending' = FALSE
    /\ lastIsTimeUp' = FALSE

\* The moment the current question became the current one, after a step
\* from interview state prev to interview state next at time clock; at is
\* that moment before the step.
becameCurrent(prev, next, at, clock) ==
    IF \/ next.sessionId # prev.sessionId
       \/ next.currentQuestionIndex # prev.currentQuestionIndex
    THEN clock
    ELSE at

\* The persist effect, for a step whose new interview state is st.
Persist(st) == storage' = <<Persisted(st)>>

Init ==
    /\ page = "none"
    /\ now = 0
    /\ uuids = 0
    /\ storage = <<>>
    /\ state = NoState
    /\ timer = NoTimer
    /\ timerRef = FALSE
    /\ activeQuestionId = "null"
    /\ timers = EmptyObject
    /\ win = NoWin
    /\ sub = Idle
    /\ initPending = FALSE
    /\ lastIsTimeUp = FALSE
    /\ app = NoApp
    /\ completeCalls = 0
    /\ finished = 0
    /\ shownAt = -1
    /\ api = useApiMounted
    /\ server = ServerStarted
    /\ cls = Constructed
    /\ timerInterval = FALSE
    /\ conv = ConvConstructed
    /\ convInterval = FALSE
    /\ convTimeouts = NoTimeouts
    /\ selected = <<>>

\* new Date() moves on.
AdvanceClock ==
    /\ now < MaxClock
    /\ now' = now + 1
    /\ UNCHANGED <<apiVars, serverVars, classVars, convVars, page, uuids, storage, state, timer, timerRef, activeQuestionId,
                   timers, win, sub, initPending, lastIsTimeUp, app, completeCalls, finished, shownAt>>

\* App has loaded the questions and renders InterviewWindow: the first render
\* of its hooks and the first run of the persist effect.
MountHook ==
    /\ page = "none"
    /\ uuids < MaxSessions
    /\ page' = "hook"
    /\ uuids' = uuids + 1
    /\ state' = InitialState(uuids + 1, now, storage)
    /\ Persist(state')
    /\ timer' = NoTimer
    /\ timerRef' = FALSE
    /\ activeQuestionId' = "null"
    /\ timers' = EmptyObject
    /\ win' = NoWin
    /\ sub' = Idle
    /\ initPending' = FALSE
    /\ lastIsTimeUp' = FALSE
    /\ completeCalls' = 0
    /\ finished' = finished
    /\ shownAt' = now
    /\ UNCHANGED <<apiVars, serverVars, classVars, convVars, now, app>>

\* The page is reloaded: React's state is gone, sessionStorage stays.
Reload ==
    /\ page # "none"
    /\ page' = "none"
    /\ app' = NoApp
    /\ Unmounted
    /\ cls' = Constructed
    /\ timerInterval' = FALSE
    /\ conv' = ConvConstructed
    /\ convInterval' = FALSE
    /\ convTimeouts' = NoTimeouts
    /\ selected' = <<>>
    /\ finished' = 0
    /\ shownAt' = -1
    /\ api' = useApiMounted
    /\ UNCHANGED <<now, uuids, storage, completeCalls, serverVars>>

\* The class-based InterviewWindow is mounted: its constructor and
\* componentDidMount, which runs initializeSession up to its end.
MountClass ==
    /\ page = "none"
    /\ page' = "class"
    /\ LET r == initializeSession(Constructed)
       IN  /\ cls' = r.state
           /\ timerInterval' = r.timerStarted
    /\ UNCHANGED <<now, hookVars, convVars, apiVars, serverVars>>

\* The passive effects of the last commit, in the order of their hooks: the
\* timer effect, the start-timer effect (startQuestionTimer is a new function
\* in every render, because the timer object it depends on is), the time-up
\* effect and, after the first render, the create-session effect.
Flush ==
    /\ page = "hook"
    /\ LET q == currentQuestion(state).id
           t1 == timerEffect(timer, timer)
           s == startQuestionTimer(timer, activeQuestionId, timers, t1, timers, q)
           p == timeUpEffect(state, win, timer, lastIsTimeUp,
                             [Pending EXCEPT !.timer = s.timer], now)
       IN  /\ timer' = p.timer
           /\ timerRef' = timerEffectInterval(timer)
           /\ timers' = s.timers
           /\ activeQuestionId' = s.activeQuestionId
           /\ state' = p.state
           /\ win' = p.win
           /\ sub' = p.sub
           /\ IF p.state # state THEN Persist(p.state) ELSE storage' = storage
    /\ lastIsTimeUp' = timer.isComplete
    /\ initPending' = IF activeQuestionId = "null" /\ Len(Questions) > 0
                         /\ win.sessionId = "null"
                      THEN TRUE ELSE initPending
    /\ shownAt' = becameCurrent(state, state', shownAt, now)
    /\ UNCHANGED <<apiVars, serverVars, classVars, convVars, page, now, uuids, app, completeCalls, finished>>

\* The interval set by the timer effect fires.
Tick ==
    /\ page = "hook"
    /\ timerRef
    /\ timer' = tick(timer)
    /\ UNCHANGED <<apiVars, serverVars, classVars, convVars, page, now, uuids, storage, state, timerRef, activeQuestionId,
                   timers, win, sub, initPending, lastIsTimeUp, app, completeCalls, finished, shownAt>>

\* The question view is rendered (not the "Interview Complete!" view).
QuestionView == page = "hook" /\ ~state.isComplete

\* The candidate edits the answer (handleAnswerChange).
Type(text) ==
    /\ QuestionView
    /\ ~win.isSubmitting
    /\ text # state.currentAnswer
    /\ state' = updateAnswer(state, text)
    /\ Persist(state')
    /\ UNCHANGED <<apiVars, serverVars, classVars, convVars, page, now, uuids, timer, timerRef, activeQuestionId, timers,
                   win, sub, initPending, lastIsTimeUp, app, completeCalls, finished, shownAt>>

\* The Clear button: updateAnswer(''); resumeTimer()
Clear ==
    /\ QuestionView
    /\ ~win.isSubmitting
    /\ state' = updateAnswer(state, "")
    /\ Persist(state')
    /\ timer' = start(timer, timer)
    /\ UNCHANGED <<apiVars, serverVars, classVars, convVars, page, now, uuids, timerRef, activeQuestionId, timers,
                   win, sub, initPending, lastIsTimeUp, app, completeCalls, finished, shownAt>>

\* The Previous button
Previous ==
    /\ QuestionView
    /\ ~(state.currentQuestionIndex = 0 \/ win.isSubmitting)
    /\ state' = goToQuestion(state, state.currentQuestionIndex - 1)
    /\ Persist(state')
    /\ UNCHANGED <<apiVars, serverVars, classVars, convVars, page, now, uuids, timer, timerRef, activeQuestionId, timers,
                   win, sub, initPending, lastIsTimeUp, app, completeCalls, finished>>
    /\ shownAt' = becameCurrent(state, state', shownAt, now)

\* The Next / Finish button
ClickSubmit ==
    /\ QuestionView
    /\ ~(trim(state.currentAnswer) = "" \/ win.isSubmitting)
    /\ LET p == handleSubmit(state, win, Pending, now)
       IN  /\ state' = p.state
           /\ win' = p.win
           /\ timer' = p.timer
           /\ sub' = p.sub
           /\ IF p.state # state THEN Persist(p.state) ELSE storage' = storage
    /\ UNCHANGED <<apiVars, serverVars, classVars, convVars, page, now, uuids, timerRef, activeQuestionId, timers,
                   initPending, lastIsTimeUp, app, completeCalls, finished>>
    /\ shownAt' = becameCurrent(state, state', shownAt, now)

\* submitAnswerApi.execute resolves.
SubmitApiOk ==
    /\ page = "hook"
    /\ sub.pc = "submitApi"
    /\ LET p == afterSubmitApi(sub, Pending, now)
       IN  /\ state' = p.state
           /\ win' = p.win
           /\ sub' = p.sub
           /\ Persist(p.state)
    /\ UNCHANGED <<apiVars, serverVars, classVars, convVars, page, now, uuids, timer, timerRef, activeQuestionId, timers,
                   initPending, lastIsTimeUp, app, completeCalls, finished>>
    /\ shownAt' = becameCurrent(state, state', shownAt, now)

\* submitAnswerApi.execute or getEvaluation.execute rejects.
ApiFail ==
    /\ page = "hook"
    /\ sub.pc \in {"submitApi", "evalApi"}
    /\ LET p == submitFailed(Pending)
       IN  /\ win' = p.win
           /\ sub' = p.sub
    /\ UNCHANGED <<apiVars, serverVars, classVars, convVars, page, now, uuids, storage, state, timer, timerRef,
                   activeQuestionId, timers, initPending, lastIsTimeUp, app,
                   completeCalls, finished, shownAt>>

\* An App that keeps the saved interview state.
handleInterviewCompleteKeeping(results) ==
    /\ app' = [interviewComplete |-> TRUE, results |-> <<results>>]
    /\ storage' = storage

\* App's handleInterviewComplete
handleInterviewComplete(results) ==
    /\ app' = [interviewComplete |-> TRUE, results |-> <<results>>]
    /\ storage' = <<>>

\* getEvaluation.execute resolves: onComplete(results), which is App's
\* handleInterviewComplete; App then renders Completion instead of
\* InterviewWindow.
EvalOk ==
    /\ page = "hook"
    /\ sub.pc = "evalApi"
    /\ handleInterviewComplete(resultsOf(sub))
    /\ completeCalls' = completeCalls + 1
    /\ finished' = state.sessionId
    /\ shownAt' = -1
    /\ page' = "completion"
    /\ Unmounted
    /\ UNCHANGED <<apiVars, serverVars, classVars, convVars, now, uuids>>

\* createSession.execute resolves or rejects (initSession).
CreateSessionOk ==
    /\ page = "hook"
    /\ initPending
    /\ initPending' = FALSE
    /\ win' = [win EXCEPT !.sessionId = "srv"]
    /\ UNCHANGED <<apiVars, serverVars, classVars, convVars, page, now, uuids, storage, state, timer, timerRef,
                   activeQuestionId, timers, sub, lastIsTimeUp, app, completeCalls, finished, shownAt>>

CreateSessionFail ==
    /\ page = "hook"
    /\ initPending
    /\ initPending' = FALSE
    /\ UNCHANGED <<apiVars, serverVars, classVars, convVars, page, now, uuids, storage, state, timer, timerRef,
                   activeQuestionId, timers, win, sub, lastIsTimeUp, app,
                   completeCalls, finished, shownAt>>

\* "Start New Interview" of the "Interview Complete!" view: resetInterview
ResetInterview ==
    /\ page = "hook"
    /\ state.isComplete
    /\ uuids < MaxSessions
    /\ uuids' = uuids + 1
    /\ state' = InitialState(uuids + 1, now, <<>>)
    /\ Persist(state')
    /\ UNCHANGED <<apiVars, serverVars, classVars, convVars, page, now, timer, timerRef, activeQuestionId, timers, win,
                   sub, initPending, lastIsTimeUp, app, completeCalls, finished>>
    /\ shownAt' = becameCurrent(state, state', shownAt, now)

\* "Start New Interview" of the Completion view: App's handleRestart
Restart ==
    /\ page = "completion"
    /\ page' = "none"
    /\ app' = NoApp
    /\ UNCHANGED <<apiVars, serverVars, classVars, convVars, now, uuids, storage, state, timer, timerRef, activeQuestionId,
                   timers, win, sub, initPending, lastIsTimeUp, completeCalls, finished, shownAt>>

CandidateAction ==
    \/ \E text \in AnswerTexts : Type(text)
    \/ Clear
    \/ Previous
    \/ ClickSubmit
    \/ ResetInterview
    \/ Restart
    \/ Reload

Next ==
    \/ MountHook
    \/ MountClass
    \/ Flush
    \/ Tick
    \/ CandidateAction
    \/ SubmitApiOk
    \/ ApiFail
    \/ EvalOk
    \/ CreateSessionOk
    \/ CreateSessionFail

Spec == Init /\ [][Next]_vars

\* The same program with the clock moving on.
NextClock == Next \/ AdvanceClock

ClockSpec == Init /\ [][NextClock]_vars

\* Scheduling: the effects of a commit are run, an interval that stays or
\* keeps becoming active fires, and a pending API call is answered.
FairSpec ==
    /\ Spec
    /\ WF_vars(Flush)
    /\ SF_vars(Tick)
    /\ WF_vars(SubmitApiOk \/ ApiFail \/ EvalOk)
    /\ WF_vars(CreateSessionOk \/ CreateSessionFail)

----------------------------------------------------------------------------
(* ConversationInterviewWindow as a state machine *)

ConvCurrent == Outcome(conv, convInterval, convTimeouts, FALSE)

\* A method's updates are committed.  Going to /completion unloads the page
\* with its interval and timeouts.  A file input that is no longer rendered
\* loses its files.
ConvCommit(o) ==
    /\ o.timeouts.fetch <= MaxPending
    /\ o.timeouts.followUp <= MaxPending
    /\ \A s \in DOMAIN SECTIONS : o.state.sectionProgress[s] <= MaxProgress
    /\ conv' = o.state
    /\ convInterval' = (o.interval /\ ~o.navigated)
    /\ convTimeouts' = IF o.navigated THEN NoTimeouts ELSE o.timeouts
    /\ page' = IF o.navigated THEN "navigated" ELSE page
    /\ selected' = IF FileInput(o.state) /\ ~o.navigated THEN selected ELSE <<>>

\* What the file input can hand over: the selected files in some order.
Selections ==
    {sel \in UNION {[1..n -> Files] : n \in 1..MaxSelected} :
        \A i, j \in 1..Len(sel) : sel[i] = sel[j] => i = j}

\* ConversationInterviewWindow is mounted: its constructor and
\* componentDidMount (initializeSession).
MountConversation ==
    /\ page = "none"
    /\ LET o == convInitializeSession(Outcome(ConvConstructed, FALSE, NoTimeouts, FALSE))
       IN  /\ conv' = o.state
           /\ convInterval' = o.interval
           /\ convTimeouts' = o.timeouts
    /\ selected' = <<>>
    /\ page' = "conversation"
    /\ UNCHANGED <<now, hookVars, apiVars, serverVars, classVars>>

\* A setTimeout(() => this.fetchNextQuestion()) fires.
FetchTimeout ==
    /\ page = "conversation"
    /\ convTimeouts.fetch > 0
    /\ \E i \in 1..Len(QUESTION_POOLS[conv.currentSection]) :
          ConvCommit(convFetchNextQuestion(
              conv, [ConvCurrent EXCEPT !.timeouts.fetch = @ - 1],
              QUESTION_POOLS[conv.currentSection][i]))
    /\ UNCHANGED <<now, hookVars, apiVars, serverVars, classVars>>

\* A setTimeout(() => this.generateFollowUp()) fires.
FollowUpTimeout ==
    /\ page = "conversation"
    /\ convTimeouts.followUp > 0
    /\ ConvCommit(generateFollowUp(
           conv, [ConvCurrent EXCEPT !.timeouts.followUp = @ - 1]))
    /\ UNCHANGED <<now, hookVars, apiVars, serverVars, classVars>>

\* The interval of startTimer fires.
ConvTick ==
    /\ page = "conversation"
    /\ convInterval
    /\ \E followUp \in BOOLEAN : ConvCommit(convTick(conv, ConvCurrent, followUp))
    /\ UNCHANGED <<now, hookVars, apiVars, serverVars, classVars>>

\* The candidate edits the response.
ConvType(text) ==
    /\ page = "conversation"
    /\ ResponseArea(conv)
    /\ ~conv.isSubmitting
    /\ text # conv.currentAnswer
    /\ conv' = [conv EXCEPT !.currentAnswer = text]
    /\ UNCHANGED <<page, now, hookVars, apiVars, serverVars, classVars, convInterval, convTimeouts,
                   selected>>

\* The candidate selects files in the file input: its change event, which
\* the browser fires when the selection differs from the input's files.
ConvUpload(files) ==
    /\ page = "conversation"
    /\ FileInput(conv)
    /\ ~conv.isSubmitting
    /\ files # selected
    /\ selected' = files
    /\ conv' = handleFileUpload(conv, files)
    /\ UNCHANGED <<page, now, hookVars, apiVars, serverVars, classVars, convInterval, convTimeouts>>

\* The Remove button of an uploaded file
ConvRemoveFile(index) ==
    /\ page = "conversation"
    /\ FileInput(conv)
    /\ ~conv.isSubmitting
    /\ index < Len(conv.uploadedFiles)
    /\ conv' = removeFile(conv, index)
    /\ UNCHANGED <<page, now, hookVars, apiVars, serverVars, classVars, convInterval, convTimeouts,
                   selected>>

\* The Send Response button
ConvClickSubmit ==
    /\ page = "conversation"
    /\ ResponseArea(conv)
    /\ ~SubmitDisabled(conv)
    /\ \E followUp \in BOOLEAN :
          ConvCommit(submitResponse(
              conv, [ConvCurrent EXCEPT !.state.isSubmitting = TRUE], followUp))
    /\ UNCHANGED <<now, hookVars, apiVars, serverVars, classVars>>

\* ConversationInterviewWindow is unmounted (the router shows another
\* view): componentWillUnmount.  The pending timeouts stay.
ConvUnmount ==
    /\ page = "conversation"
    /\ page' = "left"
    /\ convInterval' = FALSE
    /\ selected' = <<>>
    /\ UNCHANGED <<now, hookVars, apiVars, serverVars, classVars, conv, convTimeouts>>

\* What a delayed callback does to the unmounted window: React drops its
\* setState calls, so this.state stays; its interval, timeouts and
\* navigation take place.
ConvCommitUnmounted(o) ==
    /\ o.timeouts.fetch <= MaxPending
    /\ o.timeouts.followUp <= MaxPending
    /\ conv' = conv
    /\ convInterval' = (o.interval /\ ~o.navigated)
    /\ convTimeouts' = IF o.navigated THEN NoTimeouts ELSE o.timeouts
    /\ page' = IF o.navigated THEN "navigated" ELSE page
    /\ selected' = selected

\* A setTimeout(() => this.fetchNextQuestion()) fires after the unmount.
FetchTimeoutUnmounted ==
    /\ page = "left"
    /\ convTimeouts.fetch > 0
    /\ ConvCommitUnmounted(convFetchNextQuestion(
           conv, [ConvCurrent EXCEPT !.timeouts.fetch = @ - 1],
           QUESTION_POOLS[conv.currentSection][1]))
    /\ UNCHANGED <<now, hookVars, apiVars, serverVars, classVars>>

\* A setTimeout(() => this.generateFollowUp()) fires after the unmount.
FollowUpTimeoutUnmounted ==
    /\ page = "left"
    /\ convTimeouts.followUp > 0
    /\ ConvCommitUnmounted(generateFollowUp(
           conv, [ConvCurrent EXCEPT !.timeouts.followUp = @ - 1]))
    /\ UNCHANGED <<now, hookVars, apiVars, serverVars, classVars>>

ConvNext ==
    \/ MountConversation
    \/ ConvUnmount
    \/ FetchTimeoutUnmounted
    \/ FollowUpTimeoutUnmounted
    \/ FetchTimeout
    \/ FollowUpTimeout
    \/ ConvTick
    \/ \E text \in AnswerTexts : ConvType(text)
    \/ \E files \in Selections : ConvUpload(files)
    \/ \E index \in 0..(MaxSelected - 1) : ConvRemoveFile(index)
    \/ ConvClickSubmit
    \/ Reload

ConvSpec == Init /\ [][ConvNext]_vars

----------------------------------------------------------------------------
(* Actions of one useApi hook *)

\* A component calls execute.
ApiExecute ==
    /\ api.pending < MaxApiCalls
    /\ api' = execute(api)
    /\ UNCHANGED <<page, now, hookVars, classVars, convVars, serverVars>>

\* apiFunction's promise resolves.
ApiResolve(responseData) ==
    /\ api.pending > 0
    /\ api' = executeResolved(api, responseData)
    /\ UNCHANGED <<page, now, hookVars, classVars, convVars, serverVars>>

\* apiFunction's promise rejects.
ApiReject(err) ==
    /\ api.pending > 0
    /\ api' = executeRejected(api, err)
    /\ UNCHANGED <<page, now, hookVars, classVars, convVars, serverVars>>

ApiNext ==
    \/ ApiExecute
    \/ \E responseData \in ResponseData : ApiResolve(responseData)
    \/ \E err \in ApiErrors : ApiReject(err)

ApiSpec == Init /\ [][ApiNext]_vars

----------------------------------------------------------------------------
(* Actions of the server's evaluation *)

\* The server is started with or without an LLM API key; what it stored
\* stays.
ServerStart(keyConfigured) ==
    /\ server' = [server EXCEPT !.keyConfigured = keyConfigured,
                                !.called = FALSE,
                                !.llm = NotCalled,
                                !.returned = NoEvaluation]
    /\ UNCHANGED <<page, now, hookVars, classVars, convVars, apiVars>>

\* An answer to question q is evaluated, and the response and the result
\* are stored.
ServerEvaluate(q, answer, llm) ==
    /\ LET result == evaluate(server.keyConfigured, llm)
       IN  server' = [server EXCEPT
                         !.responses[q] = IF result.failed THEN @ ELSE answer,
                         !.evaluations[q] = IF result.failed THEN @ ELSE result,
                         !.called = TRUE,
                         !.llm = IF server.keyConfigured THEN llm ELSE NotCalled,
                         !.returned = result]
    /\ UNCHANGED <<page, now, hookVars, classVars, convVars, apiVars>>

ServerNext ==
    \/ \E keyConfigured \in BOOLEAN : ServerStart(keyConfigured)
    \/ \E q \in QuestionIds, answer \in AnswerTexts \ {""}, llm \in LlmOutcomes :
          ServerEvaluate(q, answer, llm)

ServerSpec == Init /\ [][ServerNext]_vars

----------------------------------------------------------------------------
(* Properties *)

\* C1: in the hook-based window, when the time-up effect runs with isTimeUp
\* newly true while a question is displayed, the answer is submitted (the API
\* call is in flight, or the interview has advanced or completed), whatever
\* the text of the answer, empty and white space included.
C1_AutoSubmitOnTimeUp ==
    [][(QuestionView /\ timer.isComplete /\ ~lastIsTimeUp /\ lastIsTimeUp')
        => \/ sub'.pc # "idle"
           \/ state'.currentQuestionIndex # state.currentQuestionIndex
           \/ state'.isComplete]_vars

\* C2: in the hook-based window, under fair scheduling, if the candidate
\* eventually takes no more action while a question stays displayed, the
\* countdown reaches zero (isTimeUp is true).
C2_CountdownReachesZero ==
    \/ []<><<CandidateAction>>_vars
    \/ <>[](~QuestionView)
    \/ []<>(QuestionView /\ timer.isComplete)

\* C3: while the hook-based window is mounted, a saved remaining time changes
\* only when its question is left; the step that switches from question A to
\* question B saves A's remaining time and starts B from B's saved remaining
\* time, or from QUESTION_TIME_LIMIT when B has none (was never visited).
C3_SavedTimeResumed ==
    [][(page = "hook" /\ page' = "hook")
        => /\ \A q \in DOMAIN timers :
                (q # activeQuestionId \/ activeQuestionId' = activeQuestionId)
                    => (q \in DOMAIN timers' /\ timers'[q] = timers[q])
           /\ (activeQuestionId' # activeQuestionId)
                => /\ (activeQuestionId # "null")
                        => /\ activeQuestionId \in DOMAIN timers'
                           /\ timers'[activeQuestionId] = timer.time
                   /\ timer'.time = IF activeQuestionId' \in DOMAIN timers
                                    THEN timers[activeQuestionId']
                                    ELSE QUESTION_TIME_LIMIT]_vars

\* A question was left with less than the limit remaining, another question
\* was visited, and the first one is active again from its saved time.
C3_Witness ==
    /\ page = "hook"
    /\ activeQuestionId \in DOMAIN timers
    /\ timers[activeQuestionId] < QUESTION_TIME_LIMIT
    /\ timer.time = timers[activeQuestionId]
    /\ \E q \in DOMAIN timers : q # activeQuestionId

PersistedFields ==
    {"sessionId", "currentQuestionIndex", "questions", "answers", "isComplete",
     "startTime", "timePerQuestion"}

\* C4: whenever the hook-based window is mounted, what a reload followed by a
\* new mount of useInterviewState would start from (a new uuid, a later clock
\* and the stored session) has sessionId, currentQuestionIndex, questions,
\* answers, isComplete, startTime and timePerQuestion equal to the current
\* values.
C4_ReloadRoundTrip ==
    (page = "hook")
        => \A f \in PersistedFields :
              InitialState(uuids + 1, now + 1, storage)[f] = state[f]

\* The window was mounted a second time and took over a session in which an
\* answer was submitted at a later time than the session's start.
C4_Witness ==
    /\ page = "hook"
    /\ uuids = 2
    /\ state.sessionId = 1
    /\ state.currentQuestionIndex = 1
    /\ Len(state.answers) = 1
    /\ state.answers[1].timeSpent > 0
    /\ activeQuestionId = "null"

\* C5: in the class-based window, an interview that is mounted and not
\* completed always shows a question whose countdown is running with time
\* left or whose answer is being submitted: a countdown that reached 0 was
\* stopped and its answer submitted, and the next question was displayed with
\* timeRemaining set to its timeLimit and a new countdown running.
C5_CountdownOrSubmission ==
    (page = "class" /\ ~cls.isCompleted)
        => \/ cls.isSubmitting
           \/ /\ cls.currentQuestion # "null"
              /\ cls.timeRemaining > 0
              /\ timerInterval

\* C6: in the hook-based window, whenever a question is displayed whose
\* countdown was started, with time remaining and no submission in flight,
\* the countdown is running.
C6_CountdownNeverPaused ==
    (/\ QuestionView
     /\ activeQuestionId = currentQuestion(state).id
     /\ timer.time > 0
     /\ ~timer.isComplete
     /\ ~win.isSubmitting
     /\ sub = Idle)
        => timer.isRunning

\* C7: when the hook-based window has completed the interview, onComplete
\* was called once, with answers holding an entry for every question (the
\* last one included) and timePerQuestion holding an entry for each of them.
C7_ResultsHoldEveryAnswer ==
    (page = "completion")
        => /\ completeCalls = 1
           /\ {app.results[1].answers[i].questionId :
                  i \in 1..Len(app.results[1].answers)} = QuestionIds
           /\ DOMAIN app.results[1].timePerQuestion = QuestionIds

\* C8: the class-based window, once mounted and until it completes, shows a
\* question whose questionNumber is one of 1..totalQuestions.
C8_QuestionNumberInRange ==
    (page = "class" /\ ~cls.isCompleted)
        => /\ cls.currentQuestion # "null"
           /\ cls.questionNumber \in 1..totalQuestions

\* C9: in the hook-based window mounted by App, the step that displays a
\* question for the first time starts its countdown from that question's
\* timeLimit.
C9_CountdownFromTimeLimit ==
    [][(/\ page = "hook" /\ page' = "hook"
        /\ activeQuestionId' # activeQuestionId
        /\ activeQuestionId' \notin DOMAIN timers)
        => \A i \in 1..Len(Questions) :
               (Questions[i].id = activeQuestionId')
                   => timer'.time = Questions[i].timeLimit]_vars

\* C10: for a displayed question that requires a file, the Send Response
\* button is disabled while uploadedFiles is empty, whatever text is typed.
C10_FileRequiredToSubmit ==
    (/\ page = "conversation"
     /\ ResponseArea(conv)
     /\ conv.currentQuestion.requiresFile
     /\ Len(conv.uploadedFiles) = 0)
        => SubmitDisabled(conv)

\* A CSV or Excel file: by its MIME type, or by the end of its name whatever
\* the case of its letters.
IsSpreadsheet(file) ==
    \/ file.type \in {"application/vnd.ms-excel",
                      "application/vnd.openxmlformats-officedocument.spreadsheetml.sheet",
                      "text/csv"}
    \/ \E ext \in { <<".", "c", "s", "v">>, <<".", "x", "l", "s", "x">>,
                    <<".", "x", "l", "s">> } :
          endsWith(toLowerCase(file.name), ext)

\* The change event of the file input has been handled in this step.
FilesSelected ==
    /\ page = "conversation"
    /\ selected' # selected
    /\ selected' # <<>>

C12_RejectionReported ==
    [][FilesSelected
        => conv'.error =
              IF \E i \in 1..Len(selected') : ~IsSpreadsheet(selected'[i])
              THEN "Some files were not uploaded. Please use only CSV or Excel files."
              ELSE "null"]_vars

\* C13: whenever the hook-based window is mounted, what a reload followed by
\* a new mount of useInterviewState would start from has the currentAnswer
\* and the endTime of the current state.
C13_DraftAndEndTimeRestored ==
    (page = "hook")
        => \A f \in {"currentAnswer", "endTime"} :
              InitialState(uuids + 1, now + 1, storage)[f] = state[f]

\* C14: the window mounted after the results of an interview were delivered
\* to App and Start New Interview was chosen starts at question 0 with no
\* answers, not complete, with a sessionId other than the finished one; and
\* while App shows the results nothing is stored nor becomes stored.
C14_RestartStartsNewSession ==
    [][/\ (page = "completion") => (storage = <<>> /\ storage' = <<>>)
       /\ (page = "none" /\ finished # 0 /\ page' = "hook")
            => /\ state'.currentQuestionIndex = 0
               /\ state'.answers = <<>>
               /\ ~state'.isComplete
               /\ state'.timePerQuestion = EmptyObject
               /\ state'.sessionId # finished]_vars

\* An interview was finished, Start New Interview was chosen and the new
\* window is mounted.
C14_Witness ==
    /\ page = "hook"
    /\ finished # 0
    /\ state.sessionId # finished
    /\ state.answers = <<>>


\* The keys of SECTIONS
SectionKeys == {"APTITUDE", "EXCEL", "SITUATIONAL"}

RECURSIVE SumOver(_, _)
\* reduce((sum, x) => sum + x, 0) over the values f[k], k in keys
SumOver(f, keys) ==
    IF keys = {} THEN 0
    ELSE LET k == CHOOSE x \in keys : TRUE
         IN  f[k] + SumOver(f, keys \ {k})

\* getTotalProgress, in whole percent (the quotient is cut, so the result
\* is above 100 only when completedQuestions exceeds totalQuestions by at
\* least a hundredth of it)
getTotalProgress(c) ==
    LET total == SumOver([s \in SectionKeys |-> SECTIONS[s].questions], SectionKeys)
        completedQuestions == SumOver(c.sectionProgress, SectionKeys)
    IN  (completedQuestions * 100) \div total

\* C15: in the Conversation window no section counts more responses than
\* SECTIONS[s].questions, overall progress never exceeds 100, and the
\* current section changes only when its count equals that number.
C15_SectionProgressBounded ==
    [][(page = "conversation" /\ page' = "conversation") =>
          /\ \A s \in SectionKeys :
                conv'.sectionProgress[s] <= SECTIONS[s].questions
          /\ getTotalProgress(conv') <= 100
          /\ (conv'.currentSection # conv.currentSection /\ conv.sessionId # "null") =>
                conv.sectionProgress[conv.currentSection]
                    = SECTIONS[conv.currentSection].questions]_vars



\* The section that follows each section but the last
NextSection == [APTITUDE |-> "EXCEL", EXCEL |-> "SITUATIONAL"]

\* C16: while the Conversation window is open, currentSection changes only
\* from a section whose count has reached SECTIONS[s].questions to the
\* section right after it (so never back, none skipped, none entered
\* twice), and isCompleted becomes true only in SITUATIONAL with its count
\* reached.
C16_SectionsInOrder ==
    [][(page = "conversation" /\ page' \in {"conversation", "navigated"}) =>
          /\ conv'.currentSection # conv.currentSection =>
                /\ conv.currentSection \in DOMAIN NextSection
                /\ conv'.currentSection = NextSection[conv.currentSection]
                /\ conv.sectionProgress[conv.currentSection]
                      >= SECTIONS[conv.currentSection].questions
                /\ conv'.sectionProgress[conv'.currentSection] = 0
          /\ (~conv.isCompleted /\ conv'.isCompleted) =>
                /\ conv.currentSection = "SITUATIONAL"
                /\ conv'.currentSection = "SITUATIONAL"
                /\ \A s \in SectionKeys :
                      conv.sectionProgress[s] >= SECTIONS[s].questions]_vars

C16_Witness ==
    /\ page = "navigated"
    /\ conv.isCompleted
    /\ conv.currentSection = "SITUATIONAL"
    /\ \A s \in SectionKeys : conv.sectionProgress[s] >= SECTIONS[s].questions



\* C17: whenever the mounted useInterviewState records an answer, its
\* timeSpent, and the timePerQuestion entry of its question, is the time
\* from the moment the current question became the current one to now.
C17_TimeSpentPerQuestion ==
    [][(page = "hook" /\ page' = "hook" /\ state'.sessionId = state.sessionId) =>
          \A i \in 1..Len(state'.answers) :
             (i > Len(state.answers) \/ state'.answers[i] # state.answers[i]) =>
                LET a == state'.answers[i]
                IN  /\ a.questionId = currentQuestion(state).id
                    /\ a.timeSpent = now - shownAt
                    /\ state'.timePerQuestion[a.questionId] = now - shownAt]_vars



\* An execute call is pending and no other call was pending at any moment
\* since it began.
SingleCall == api.pending = 1 /\ api.alone

\* C18: while a single execute call of a useApi hook is pending, loading is
\* true and error is null; when it resolves, data is response.data, that
\* value is returned and error is null; when it rejects, error is the
\* server's message if there is one and 'An unexpected error occurred' if
\* not, data is what it was and an Error with that message is thrown; either
\* way loading is false afterwards.
C18_UseApiStates ==
    [][/\ SingleCall' => (api'.loading /\ api'.error = "null")
       /\ (SingleCall /\ api'.pending = 0) =>
             /\ ~api'.loading
             /\ \/ /\ api'.outcome.kind = "returned"
                   /\ api'.data = api'.outcome.value
                   /\ api'.error = "null"
                   /\ api'.data = api'.outcome.responseData
                \/ /\ api'.outcome.kind = "thrown"
                   /\ api'.data = api.data
                   /\ api'.error = api'.outcome.value
                   /\ LET err == api'.outcome.err
                      IN  api'.error =
                             IF err.hasResponse /\ err.message \notin {"null", ""}
                             THEN err.message
                             ELSE "An unexpected error occurred"]_vars

C18_Witness ==
    /\ api.pending = 0
    /\ api.alone
    /\ api.outcome.kind = "thrown"
    /\ api.outcome.err = [hasResponse |-> TRUE, message |-> "Session not found"]
    /\ api.error = "Session not found"
    /\ api.data = "session"



\* C19: while the interview runs, hasActiveSession() is true exactly when a
\* session is stored under interview_session (every stored session of the
\* model was saved less than 24 hours ago: the clock stays below MaxClock
\* seconds).
C19_SavedSessionIsActive ==
    (page = "hook" /\ now < 24 * 3600) =>
        (hasActiveSession(storage, now) <=> storage # <<>>)



\* C20: every evaluate call returns a score and feedback and never fails;
\* it returns the mock evaluation when no API key is configured or the LLM
\* API call failed, and what it returns is stored for the question,
\* whichever path gave it.
C20_EvaluationFallsBackToMock ==
    [][server'.called =>
          /\ ~server'.returned.failed
          /\ server'.returned.score # "null"
          /\ server'.returned.feedback # "null"
          /\ (~server'.keyConfigured \/ ~server'.llm.ok) =>
                server'.returned = MockEvaluation
          /\ \E q \in QuestionIds :
                /\ server'.evaluations[q] = server'.returned
                /\ \A r \in QuestionIds \ {q} :
                      server'.evaluations[r] = server.evaluations[r]]_vars

C20_Witness ==
    /\ server.called
    /\ server.keyConfigured
    /\ ~server.llm.ok
    /\ server.returned = MockEvaluation
    /\ \E q \in QuestionIds : server.evaluations[q] = MockEvaluation



\* A response is added to the conversation: submitResponse went through.
ResponseSubmitted ==
    /\ page = "conversation"
    /\ SumOver(conv'.sectionProgress, SectionKeys)
          > SumOver(conv.sectionProgress, SectionKeys)

\* A delayed callback puts a question or a follow-up to the candidate.
QuestionPosed ==
    /\ page = "conversation" /\ page' = "conversation"
    /\ FetchTimeout \/ FollowUpTimeout
    /\ convTimeouts'.fetch + convTimeouts'.followUp
          < convTimeouts.fetch + convTimeouts.followUp

\* C21: in the Conversation window a response is submitted only for a
\* question that is still awaiting one (so not a second time by the
\* countdown of a question already answered), and a question or follow-up is
\* put only when no other is awaiting its response.
C21_OneResponsePerQuestion ==
    [][/\ ResponseSubmitted => conv.awaitingResponse
       /\ QuestionPosed => ~conv.awaitingResponse]_vars



\* The class-based window renders a question whose answer Textarea is not
\* disabled; the Submit button is then disabled only for want of an answer.
AnswerFieldUsable(c) ==
    /\ ~c.isLoading
    /\ c.currentQuestion # "null"
    /\ ~c.isSubmitting

\* C22: the class-based window, once it has loaded and until it completes,
\* displays a question of 1..totalQuestions whose answer field and Submit
\* button the candidate can use: isSubmitting is false whenever a question
\* is displayed and no submission is under way (submitAnswer runs within
\* one step, so none is under way between steps).
C22_AnswerFieldUsable ==
    (page = "class" /\ ~cls.isLoading /\ ~cls.isCompleted)
        => /\ AnswerFieldUsable(cls)
           /\ cls.questionNumber \in 1..totalQuestions



\* C23: in the hook-based window, startQuestionTimer(q) called for the
\* question q that is already active (as the start-timer effect calls it
\* after a commit) leaves the countdown's remaining time and running state,
\* the active question and the saved times as they are.
C23_StartQuestionTimerIdempotent ==
    (page = "hook" /\ activeQuestionId # "null")
        => LET s == startQuestionTimer(timer, activeQuestionId, timers,
                                       timer, timers, activeQuestionId)
           IN  /\ s.timer.time = timer.time
               /\ s.timer.isRunning = timer.isRunning
               /\ s.activeQuestionId = activeQuestionId
               /\ s.timers = timers



\* C24: once ConversationInterviewWindow has been unmounted, no countdown
\* interval is active, whatever delayed callbacks fire afterwards.
C24_NoIntervalAfterUnmount == (page = "left") => ~convInterval


====
